---- MODULE Spec2Model ----
(***************************************************************************)
(* SiteForgeAI backend: the AI quota / subscription gating of              *)
(* server/storage.ts (DatabaseStorage) and the POST /api/ai/generate       *)
(* handler of server/routes.ts, with the admin and signup routes that      *)
(* write the same users table.                                             *)
(*                                                                         *)
(* Every database statement is one atomic step; a handler is a sequence    *)
(* of such steps (one per await), so handlers of different requests        *)
(* interleave between their statements, as they do on the Node event loop. *)
(***************************************************************************)
EXTENDS Integers, Sequences, FiniteSets, TLC

(* ------------------------------ bounds --------------------------------- *)

\* Account ids ever handed out (ids are never reused after a delete).
MaxUsers == 2
\* Generation records after which no new generate request is started.
MaxLog == 3
\* Prompt lengths a generate request is made with (1..MaxPromptLen).
MaxPromptLen == 1
\* Largest counter value drawn for an account row of the call-level
\* specification (SpecCalls).
MaxUsed == 4
\* Longest prompt of the one-request-at-a-time specification.
MaxSoloPromptLen == 4
\* Longest provider text, in pieces, of the parsing specification.
MaxContentLen == 5

(* ------------------------- program constants --------------------------- *)

\* limits.free (updateSubscription), the default limit of a new account.
FreeLimit == 3
\* limits.pro / limits.enterprise: the unbounded sentinel.
Unbounded == 999999

Ids == 1..MaxUsers
\* The seeded administrator, who calls the admin routes.
Admin == 1
\* The accounts created by signup: they make the generate requests and are
\* the ones billing events and admin operations are about.
Clients == Ids \ {Admin}
\* The generate requests that can be in flight at once.
Slots == {1, 2}
PromptLens == 1..MaxPromptLen
Roles == {"ADMIN", "CLIENT"}
Plans == {"free", "pro", "enterprise"}
Statuses == {"free", "active", "past_due", "cancelled"}

MsgPayment == "Your subscription requires payment. Please upgrade to continue using AI features."
MsgLimitGate == "AI generation limit reached. Upgrade your plan for unlimited generations."
MsgLimitConsume == "AI generation limit reached. Upgrade your plan for more generations."
MsgProvider == "AI service temporarily unavailable. Please try again. Your credits were not used."
MsgValidation == "error.errors[0].message"

VARIABLES
  users,          \* the users table: id -> row, defined on the existing ids
  nextId,         \* the next id createUser hands out
  aiGenerations,  \* the aiGenerations table, in insertion order
  req,            \* slot -> the generate request handled there
  granted,        \* history: id -> incrementAiUsage calls that wrote and
                  \* returned true since the counter was last reset
  out,            \* the response sent by the step that led here, if any
  call            \* the last storage call of the call-level specification

vars == <<users, nextId, aiGenerations, req, granted, out, call>>

(* --------------------------- storage.ts -------------------------------- *)

\* A users row as createUser leaves it: the schema defaults.
NewUser(role) ==
  [role |-> role, aiGenerationsUsed |-> 0, aiGenerationsLimit |-> FreeLimit,
   planType |-> "free", subscriptionStatus |-> "free"]

Max(a, b) == IF a >= b THEN a ELSE b

hasPaidPlan(planType) == planType = "pro" \/ planType = "enterprise"

\* isBlocked that forgets the cancelled status.
isBlocked_pastDueOnly(status) == status = "past_due"

isBlocked(status) == status = "past_due" \/ status = "cancelled"

\* hasCredits off by one: the last credit can be spent twice.
hasCredits_offByOne(user) == user.aiGenerationsUsed <= user.aiGenerationsLimit

hasCredits(user) == user.aiGenerationsUsed < user.aiGenerationsLimit

\* canUseAi without the paid-plan alternative.
canUseAi_creditsOnly(user) ==
  ~isBlocked(user.subscriptionStatus) /\ hasCredits(user)

canUseAi(user) ==
  ~isBlocked(user.subscriptionStatus) /\ (hasCredits(user) \/ hasPaidPlan(user.planType))

\* getSubscriptionStatus(userId) on table db.
getSubscriptionStatus(db, userId) ==
  IF userId \notin DOMAIN db
  THEN [planType |-> "free", status |-> "free", isBlocked |-> FALSE, canUseAi |-> TRUE]
  ELSE [planType |-> db[userId].planType,
        status |-> db[userId].subscriptionStatus,
        isBlocked |-> isBlocked(db[userId].subscriptionStatus),
        canUseAi |-> canUseAi(db[userId])]

\* getAiUsage(userId) on table db.
getAiUsage(db, userId) ==
  IF userId \notin DOMAIN db
  THEN [used |-> 0, limit |-> 3, remaining |-> 3]
  ELSE [used |-> db[userId].aiGenerationsUsed,
        limit |-> db[userId].aiGenerationsLimit,
        remaining |-> Max(0, db[userId].aiGenerationsLimit - db[userId].aiGenerationsUsed)]

\* incrementAiUsage without the paid-and-active return: every account is
\* credit-limited.
incrementAiUsageRead_noBypass(db, userId) ==
  IF userId \notin DOMAIN db THEN [ret |-> "false", used |-> 0]
  ELSE IF db[userId].aiGenerationsUsed >= db[userId].aiGenerationsLimit
       THEN [ret |-> "false", used |-> 0]
  ELSE [ret |-> "update", used |-> db[userId].aiGenerationsUsed]

\* incrementAiUsage up to its update statement: what it decides from the row
\* it read. "false" / "true" are returned at once; "update" goes on to write
\* aiGenerationsUsed = used + 1, with `used` the value that was read.
\* The decision that lets a missing account through.
incrementAiUsageRead_missingPasses(db, userId) ==
  IF userId \notin DOMAIN db THEN [ret |-> "true", used |-> 0]
  ELSE IF hasPaidPlan(db[userId].planType) /\ db[userId].subscriptionStatus = "active"
       THEN [ret |-> "true", used |-> 0]
  ELSE IF db[userId].aiGenerationsUsed >= db[userId].aiGenerationsLimit
       THEN [ret |-> "false", used |-> 0]
  ELSE [ret |-> "update", used |-> db[userId].aiGenerationsUsed]

\* The decision that refuses the last credit.
incrementAiUsageRead_lastCreditRefused(db, userId) ==
  IF userId \notin DOMAIN db THEN [ret |-> "false", used |-> 0]
  ELSE IF hasPaidPlan(db[userId].planType) /\ db[userId].subscriptionStatus = "active"
       THEN [ret |-> "true", used |-> 0]
  ELSE IF db[userId].aiGenerationsUsed + 1 >= db[userId].aiGenerationsLimit
       THEN [ret |-> "false", used |-> 0]
  ELSE [ret |-> "update", used |-> db[userId].aiGenerationsUsed]

\* The decision with the bypass for every paid plan, whatever its status.
incrementAiUsageRead_paidAlways(db, userId) ==
  IF userId \notin DOMAIN db THEN [ret |-> "false", used |-> 0]
  ELSE IF hasPaidPlan(db[userId].planType) THEN [ret |-> "true", used |-> 0]
  ELSE IF db[userId].aiGenerationsUsed >= db[userId].aiGenerationsLimit
       THEN [ret |-> "false", used |-> 0]
  ELSE [ret |-> "update", used |-> db[userId].aiGenerationsUsed]

incrementAiUsageRead(db, userId) ==
  IF userId \notin DOMAIN db THEN [ret |-> "false", used |-> 0]
  ELSE IF hasPaidPlan(db[userId].planType) /\ db[userId].subscriptionStatus = "active"
       THEN [ret |-> "true", used |-> 0]
  ELSE IF db[userId].aiGenerationsUsed >= db[userId].aiGenerationsLimit
       THEN [ret |-> "false", used |-> 0]
  ELSE [ret |-> "update", used |-> db[userId].aiGenerationsUsed]

\* The update statement writing back the value it read.
incrementAiUsageWrite_noIncrement(db, userId, used) ==
  IF userId \in DOMAIN db
  THEN [db EXCEPT ![userId].aiGenerationsUsed = used]
  ELSE db

\* The update statement of incrementAiUsage: set aiGenerationsUsed = used + 1
\* where id = userId (no row: nothing is written).
incrementAiUsageWrite(db, userId, used) ==
  IF userId \in DOMAIN db
  THEN [db EXCEPT ![userId].aiGenerationsUsed = used + 1]
  ELSE db

limits(planType) ==
  CASE planType = "free" -> FreeLimit
    [] planType = "pro" -> Unbounded
    [] planType = "enterprise" -> Unbounded

\* updateSubscription that never resets the counter.
updateSubscription_noReset(db, userId, planType, status) ==
  IF userId \notin DOMAIN db THEN db
  ELSE [db EXCEPT ![userId] =
          [@ EXCEPT !.planType = planType,
                    !.subscriptionStatus = status,
                    !.aiGenerationsLimit = limits(planType)]]

\* updateSubscription that resets the counter on every plan change.
updateSubscription_alwaysReset(db, userId, planType, status) ==
  IF userId \notin DOMAIN db THEN db
  ELSE [db EXCEPT ![userId] =
          [@ EXCEPT !.planType = planType,
                    !.subscriptionStatus = status,
                    !.aiGenerationsLimit = limits(planType),
                    !.aiGenerationsUsed = 0]]

\* updateSubscription(userId, planType, status) on table db.
updateSubscription(db, userId, planType, status) ==
  IF userId \notin DOMAIN db THEN db
  ELSE [db EXCEPT ![userId] =
          [@ EXCEPT !.planType = planType,
                    !.subscriptionStatus = status,
                    !.aiGenerationsLimit = limits(planType),
                    !.aiGenerationsUsed = IF planType = "free" THEN 0 ELSE @]]

\* updateUserRole(id, role) on table db.
updateUserRole(db, id, role) ==
  IF id \in DOMAIN db THEN [db EXCEPT ![id].role = role] ELSE db

\* deleteUser(id) on table db.
deleteUser(db, id) == [x \in DOMAIN db \ {id} |-> db[x]]

\* Math.floor(prompt.length * 1.5)
\* The estimate rounded up instead of down.
tokensUsed_ceil(n) == (3 * n + 1) \div 2

tokensUsed(n) == (3 * n) \div 2


\* The placeholder text the handler returns for a prompt of n characters.
result(n) == <<"Generated content for: ", n, ". This is a placeholder - connect OpenAI API for real AI generation.">>

(* ----------------------- POST /api/ai/generate ------------------------- *)

NoRow == [role |-> "", aiGenerationsUsed |-> 0, aiGenerationsLimit |-> 0,
          planType |-> "", subscriptionStatus |-> ""]

\* A slot with no request in it. userId, prompt and used are the handler's
\* locals that are read again after an await (used: user.aiGenerationsUsed
\* inside incrementAiUsage). The rest is history, kept to state the claims:
\* calls - what the request has called so far; gateFound/gateRow - the row the
\* gate read; touched - whether another operation has written or deleted the
\* caller's row since the gate read it (the gate's row is then dropped).
IdleReq ==
  [pc |-> "idle", userId |-> 0, prompt |-> 0, used |-> 0, calls |-> {},
   gateFound |-> FALSE, gateRow |-> NoRow, touched |-> FALSE]

\* No response was sent by the last step.
NoOut == [status |-> 0]

RowOf(db, userId) == IF userId \in DOMAIN db THEN db[userId] ELSE NoRow

RouteGenerate == "POST /api/ai/generate"
RouteDeleteUser == "DELETE /api/admin/users/:id"

\* The response of generate request r, with r's history.
Response(r, status, body) ==
  [route |-> RouteGenerate, status |-> status, body |-> body,
   userId |-> r.userId, prompt |-> r.prompt,
   calls |-> r.calls, gateFound |-> r.gateFound, gateRow |-> r.gateRow,
   touched |-> r.touched]

\* Requests on account userId that have passed the gate, other than slot s,
\* see their row written by someone else (a statement that matches no row
\* writes nothing).
Touch(rq, s, userId) ==
  [x \in Slots |->
     IF /\ x # s /\ rq[x].userId = userId /\ rq[x].pc \notin {"idle", "gate"}
        /\ userId \in DOMAIN users
     THEN [rq[x] EXCEPT !.touched = TRUE, !.gateFound = FALSE, !.gateRow = NoRow]
     ELSE rq[x]]

\* authMiddleware passed (a token of account userId, which signup issued), then
\* aiGenerateSchema.parse(req.body): a ZodError ends the request with 400.
Start(s, userId, n, valid) ==
  /\ req[s].pc = "idle"
  /\ userId < nextId
  /\ Len(aiGenerations) < MaxLog
  /\ LET r == [IdleReq EXCEPT !.userId = userId, !.prompt = n]
     IN IF valid
        THEN /\ req' = [req EXCEPT ![s] = [r EXCEPT !.pc = "gate"]]
             /\ out' = NoOut
        ELSE /\ req' = req
             /\ out' = Response(r, 400, [message |-> MsgValidation])
  /\ UNCHANGED <<users, nextId, aiGenerations, granted, call>>

\* const subscription = await storage.getSubscriptionStatus(id), then the
\* blocked check and the canUseAi check. subscription is not read after them.
Gate(s) ==
  /\ req[s].pc = "gate"
  /\ LET subscription == getSubscriptionStatus(users, req[s].userId)
         r == [req[s] EXCEPT !.calls = @ \cup {"getSubscriptionStatus"},
                             !.gateFound = req[s].userId \in DOMAIN users,
                             !.gateRow = RowOf(users, req[s].userId)]
     IN IF subscription.isBlocked
        THEN /\ req' = [req EXCEPT ![s] = IdleReq]
             /\ out' = Response(r, 402,
                  [message |-> MsgPayment, requiresPayment |-> TRUE,
                   subscription |-> subscription])
        ELSE IF ~subscription.canUseAi
        THEN /\ req' = [req EXCEPT ![s] = IdleReq]
             /\ out' = Response(r, 403,
                  [message |-> MsgLimitGate, requiresUpgrade |-> TRUE,
                   subscription |-> subscription])
        ELSE /\ req' = [req EXCEPT ![s] = [r EXCEPT !.pc = "usage"]]
             /\ out' = NoOut
  /\ UNCHANGED <<users, nextId, aiGenerations, granted, call>>

\* The handler with a catch block that logs the provider error and falls
\* through to the consume step instead of answering 503.
Provider_fallsThrough(s, ok) ==
  /\ req[s].pc = "usage"
  /\ LET r == [req[s] EXCEPT !.calls = @ \cup {"getAiUsage", "provider"}]
     IN req' = [req EXCEPT ![s] =
          [r EXCEPT !.pc = "incRead",
                    !.calls = IF ok THEN @ ELSE @ \cup {"providerThrew"}]]
  /\ out' = NoOut
  /\ UNCHANGED <<users, nextId, aiGenerations, granted, call>>

\* const usage = await storage.getAiUsage(id) (the value is not used), then
\* the try block that stands for the provider call: it yields result and
\* tokensUsed, or it throws and the catch answers 503.
Provider(s, ok) ==
  /\ req[s].pc = "usage"
  /\ LET r == [req[s] EXCEPT !.calls = @ \cup {"getAiUsage", "provider"}]
     IN IF ok
        THEN /\ req' = [req EXCEPT ![s] = [r EXCEPT !.pc = "incRead"]]
             /\ out' = NoOut
        ELSE /\ req' = [req EXCEPT ![s] = IdleReq]
             /\ out' = Response([r EXCEPT !.calls = @ \cup {"providerThrew"}], 503,
                  [message |-> MsgProvider])
  /\ UNCHANGED <<users, nextId, aiGenerations, granted, call>>

\* const canIncrement = await storage.incrementAiUsage(id), up to its update
\* statement: getUser and the three early returns. A false ends the request
\* with 403.
\* The handler without the return on a false incrementAiUsage.
IncRead_ignoresFalse(s) ==
  /\ req[s].pc = "incRead"
  /\ LET d == incrementAiUsageRead(users, req[s].userId)
         r == [req[s] EXCEPT !.calls = @ \cup {"incrementAiUsage"}]
     IN CASE d.ret = "false" ->
               /\ req' = [req EXCEPT ![s] = [r EXCEPT !.pc = "log", !.calls = @ \cup {"false"}]]
               /\ out' = NoOut
          [] d.ret = "true" ->
               /\ req' = [req EXCEPT ![s] = [r EXCEPT !.pc = "log", !.calls = @ \cup {"true"}]]
               /\ out' = NoOut
          [] d.ret = "update" ->
               /\ req' = [req EXCEPT ![s] = [r EXCEPT !.pc = "incWrite", !.used = d.used]]
               /\ out' = NoOut
  /\ UNCHANGED <<users, nextId, aiGenerations, granted, call>>

\* const canIncrement = await storage.incrementAiUsage(id), up to the read of
\* the row; if (!canIncrement) return 403.
IncRead(s) ==
  /\ req[s].pc = "incRead"
  /\ LET d == incrementAiUsageRead(users, req[s].userId)
         r == [req[s] EXCEPT !.calls = @ \cup {"incrementAiUsage"}]
     IN CASE d.ret = "false" ->
               /\ req' = [req EXCEPT ![s] = IdleReq]
               /\ out' = Response([r EXCEPT !.calls = @ \cup {"false"}], 403,
                    [message |-> MsgLimitConsume])
          [] d.ret = "true" ->
               /\ req' = [req EXCEPT ![s] = [r EXCEPT !.pc = "log", !.calls = @ \cup {"true"}]]
               /\ out' = NoOut
          [] d.ret = "update" ->
               /\ req' = [req EXCEPT ![s] = [r EXCEPT !.pc = "incWrite", !.used = d.used]]
               /\ out' = NoOut
  /\ UNCHANGED <<users, nextId, aiGenerations, granted, call>>

\* The update statement of incrementAiUsage and its return true.
IncWrite(s) ==
  /\ req[s].pc = "incWrite"
  /\ LET r == req[s]
     IN /\ users' = incrementAiUsageWrite(users, r.userId, r.used)
        /\ req' = [Touch(req, s, r.userId) EXCEPT ![s] =
             [r EXCEPT !.pc = "log", !.used = 0, !.calls = @ \cup {"update", "true"}]]
        /\ granted' = [granted EXCEPT ![r.userId] = @ + 1]
  /\ out' = NoOut
  /\ UNCHANGED <<nextId, aiGenerations, call>>

\* await storage.logAiGeneration(id, prompt, result, tokensUsed)
Log(s) ==
  /\ req[s].pc = "log"
  /\ LET r == req[s]
     IN /\ aiGenerations' = Append(aiGenerations,
             [userId |-> r.userId, prompt |-> r.prompt, result |-> result(r.prompt),
              tokensUsed |-> tokensUsed(r.prompt)])
        /\ req' = [req EXCEPT ![s] =
             [r EXCEPT !.pc = "usage2", !.calls = @ \cup {"logAiGeneration"}]]
  /\ out' = NoOut
  /\ UNCHANGED <<users, nextId, granted, call>>

\* const updatedUsage = await storage.getAiUsage(id); res.json({...})
Finish(s) ==
  /\ req[s].pc = "usage2"
  /\ req' = [req EXCEPT ![s] = IdleReq]
  /\ out' = Response(req[s], 200,
       [result |-> result(req[s].prompt), tokensUsed |-> tokensUsed(req[s].prompt),
        usage |-> getAiUsage(users, req[s].userId)])
  /\ UNCHANGED <<users, nextId, aiGenerations, granted, call>>

\* The storage call a request is waiting for rejects (a database error):
\* control enters the handler's catch block, which answers 500 and undoes
\* nothing that earlier statements of the request have written.
StorageThrows(s) ==
  /\ req[s].pc \in {"gate", "usage", "incRead", "incWrite", "log", "usage2"}
  /\ req' = [req EXCEPT ![s] = IdleReq]
  /\ out' = Response([req[s] EXCEPT !.calls = @ \cup {"storageThrew"}], 500,
                     [message |-> "Internal server error"])
  /\ UNCHANGED <<users, nextId, aiGenerations, granted, call>>

(* ------------------ the other writers of the users table --------------- *)

NoCall == [op |-> "none"]

\* POST /api/auth/signup with an email that is not registered yet: createUser
\* with role CLIENT and the schema defaults; the new account gets its token.
Signup ==
  /\ nextId <= MaxUsers
  /\ users' = [x \in DOMAIN users \cup {nextId} |->
                 IF x = nextId THEN NewUser("CLIENT") ELSE users[x]]
  /\ nextId' = nextId + 1
  /\ out' = NoOut
  /\ UNCHANGED <<aiGenerations, req, granted, call>>

\* PATCH /api/admin/users/:id/role, called by the administrator.
AdminUpdateRole(id, role) ==
  /\ users' = updateUserRole(users, id, role)
  /\ req' = Touch(req, 0, id)
  /\ out' = NoOut
  /\ UNCHANGED <<nextId, aiGenerations, granted, call>>

\* The response of the delete route to `caller` asking for account id, with
\* the storage calls made and the users table as it was before.
DeleteResponse(caller, id, status, body, calls) ==
  [route |-> RouteDeleteUser, status |-> status, body |-> body,
   userId |-> caller, id |-> id, prompt |-> 0, calls |-> calls,
   gateFound |-> FALSE, gateRow |-> NoRow, touched |-> FALSE, before |-> users]

\* The delete route without the self-deletion check.
AdminDeleteUser_noSelfCheck(caller, id) ==
  /\ users' = deleteUser(users, id)
  /\ req' = Touch(req, 0, id)
  /\ out' = IF id \in DOMAIN users
            THEN DeleteResponse(caller, id, 204, [message |-> ""], {"deleteUser"})
            ELSE DeleteResponse(caller, id, 404, [message |-> "User not found"], {"deleteUser"})
  /\ UNCHANGED <<nextId, aiGenerations, granted, call>>

\* DELETE /api/admin/users/:id, called by the administrator `caller`: 400 for
\* the caller's own id, else deleteUser and 204, or 404 when no row went.
AdminDeleteUser(caller, id) ==
  /\ IF id = caller
     THEN /\ UNCHANGED <<users, req>>
          /\ out' = DeleteResponse(caller, id, 400, [message |-> "Cannot delete yourself"], {})
     ELSE /\ users' = deleteUser(users, id)
          /\ req' = Touch(req, 0, id)
          /\ out' = IF id \in DOMAIN users
                    THEN DeleteResponse(caller, id, 204, [message |-> ""], {"deleteUser"})
                    ELSE DeleteResponse(caller, id, 404, [message |-> "User not found"], {"deleteUser"})
  /\ UNCHANGED <<nextId, aiGenerations, granted, call>>

\* storage.updateSubscription(userId, planType, status), called by the billing
\* integration.
UpdateSubscription(userId, planType, status) ==
  /\ users' = updateSubscription(users, userId, planType, status)
  /\ req' = Touch(req, 0, userId)
  /\ granted' = IF planType = "free" /\ userId \in DOMAIN users
                THEN [granted EXCEPT ![userId] = 0] ELSE granted
  /\ out' = NoOut
  /\ UNCHANGED <<nextId, aiGenerations, call>>

(* --------------------------- specification ----------------------------- *)

\* The database as seeded: the administrator's account with the schema
\* defaults; no request in flight.
Init ==
  /\ users = [x \in {Admin} |-> NewUser("ADMIN")]
  /\ nextId = Admin + 1
  /\ aiGenerations = <<>>
  /\ req = [s \in Slots |-> IdleReq]
  /\ granted = [x \in Ids |-> 0]
  /\ out = NoOut
  /\ call = NoCall

Next ==
  \/ \E s \in Slots, userId \in Clients, n \in PromptLens, valid \in BOOLEAN :
       Start(s, userId, n, valid)
  \/ \E s \in Slots : Gate(s)
  \/ \E s \in Slots, ok \in BOOLEAN : Provider(s, ok)
  \/ \E s \in Slots : IncRead(s)
  \/ \E s \in Slots : IncWrite(s)
  \/ \E s \in Slots : Log(s)
  \/ \E s \in Slots : Finish(s)
  \/ Signup
  \/ \E id \in Clients, role \in Roles : AdminUpdateRole(id, role)
  \/ \E id \in Ids : AdminDeleteUser(Admin, id)
  \/ \E userId \in Clients, planType \in Plans, status \in Statuses :
       UpdateSubscription(userId, planType, status)

Spec == Init /\ [][Next]_vars

\* One client sending generate requests one after the other, with prompts of
\* several lengths.
NextSolo ==
  \/ Signup
  \/ \E n \in 1..MaxSoloPromptLen, valid \in BOOLEAN : Start(1, Admin + 1, n, valid)
  \/ Gate(1)
  \/ \E ok \in BOOLEAN : Provider(1, ok)
  \/ IncRead(1)
  \/ IncWrite(1)
  \/ Log(1)
  \/ Finish(1)

SpecSolo == Init /\ [][NextSolo]_vars

\* The requests of that client on a database whose statements may fail.
NextFaults ==
  \/ NextSolo
  \/ StorageThrows(1)

SpecFaults == Init /\ [][NextFaults]_vars

(* ------------- storage calls on any row, statement by statement ------- *)

\* The calls of two callers (Slots) are issued in any order; a call of one
\* statement is one step, incrementAiUsage is its getUser and, later, its
\* update, and req[s] holds what caller s's pending update will write.

\* The rows the users table can hold for an account.
Rows ==
  [role : Roles, aiGenerationsUsed : 0..MaxUsed,
   aiGenerationsLimit : {FreeLimit, Unbounded},
   planType : Plans, subscriptionStatus : Statuses]

\* The administrator's account, and the client account 2 either absent or
\* holding any row.
InitCalls ==
  /\ \/ users = [x \in {Admin} |-> NewUser("ADMIN")]
     \/ \E row \in Rows :
          users = [x \in {Admin, Admin + 1} |-> IF x = Admin THEN NewUser("ADMIN") ELSE row]
  /\ nextId = Admin + 2
  /\ aiGenerations = <<>>
  /\ req = [s \in Slots |-> IdleReq]
  /\ granted = [x \in Ids |-> 0]
  /\ out = NoOut
  /\ call = NoCall

\* await storage.getSubscriptionStatus(userId)
CallGetSubscriptionStatus(userId) ==
  /\ call' = [op |-> "getSubscriptionStatus", userId |-> userId, before |-> users,
              ret |-> getSubscriptionStatus(users, userId)]
  /\ UNCHANGED <<users, nextId, aiGenerations, req, granted, out>>

\* await storage.getAiUsage(userId)
CallGetAiUsage(userId) ==
  /\ call' = [op |-> "getAiUsage", userId |-> userId, before |-> users,
              ret |-> getAiUsage(users, userId)]
  /\ UNCHANGED <<users, nextId, aiGenerations, req, granted, out>>

\* await storage.incrementAiUsage(userId) by caller s, up to its getUser: the
\* call returns at once when the row is missing, paid and active, or out of
\* credits; otherwise its update statement is still to come and statements
\* of other calls may run first. The counter stops at MaxUsed + 1.
CallIncrementAiUsageRead(s, userId) ==
  /\ req[s].pc = "idle"
  /\ userId \in DOMAIN users => users[userId].aiGenerationsUsed <= MaxUsed
  /\ LET d == incrementAiUsageRead(users, userId)
     IN IF d.ret = "update"
        THEN /\ req' = [req EXCEPT ![s] =
                  [IdleReq EXCEPT !.pc = "incWrite", !.userId = userId, !.used = d.used,
                                  !.gateFound = TRUE, !.gateRow = users[userId]]]
             /\ call' = NoCall
        ELSE /\ req' = req
             /\ call' = [op |-> "incrementAiUsage", userId |-> userId,
                         found |-> userId \in DOMAIN users, touched |-> FALSE,
                         read |-> RowOf(users, userId), before |-> users,
                         ret |-> d.ret # "false"]
  /\ UNCHANGED <<users, nextId, aiGenerations, granted, out>>

\* The update statement of caller s's incrementAiUsage and its return true.
\* `read` is the row its getUser saw (forgotten, and `touched` set, when a
\* statement of another call wrote the row since), `before` the table just
\* before the update.
CallIncrementAiUsageWrite(s) ==
  /\ req[s].pc = "incWrite"
  /\ users' = incrementAiUsageWrite(users, req[s].userId, req[s].used)
  /\ req' = [Touch(req, s, req[s].userId) EXCEPT ![s] = IdleReq]
  /\ call' = [op |-> "incrementAiUsage", userId |-> req[s].userId,
              found |-> TRUE, touched |-> req[s].touched,
              read |-> req[s].gateRow, before |-> users, ret |-> TRUE]
  /\ UNCHANGED <<nextId, aiGenerations, granted, out>>

\* await storage.updateSubscription(userId, planType, status)
CallUpdateSubscription(userId, planType, status) ==
  /\ users' = updateSubscription(users, userId, planType, status)
  /\ call' = [op |-> "updateSubscription", userId |-> userId, before |-> users,
              planType |-> planType, status |-> status]
  /\ req' = Touch(req, 0, userId)
  /\ UNCHANGED <<nextId, aiGenerations, granted, out>>

NextCalls ==
  \/ \E userId \in Clients : CallGetSubscriptionStatus(userId)
  \/ \E userId \in Clients : CallGetAiUsage(userId)
  \/ \E s \in Slots, userId \in Clients : CallIncrementAiUsageRead(s, userId)
  \/ \E s \in Slots : CallIncrementAiUsageWrite(s)
  \/ \E userId \in Clients, planType \in Plans, status \in Statuses :
       CallUpdateSubscription(userId, planType, status)

SpecCalls == InitCalls /\ [][NextCalls]_vars

(* --------------- the parsing of the provider's answer ------------------ *)

\* A provider text is a sequence of pieces: a code fence, the pieces of an
\* HTML document, and two complete JSON objects, one with both fields and one
\* with neither.
JsonFull == "{\"html\":\"<!DOCTYPE html></html>\",\"css\":\"body{}\"}"
JsonEmpty == "{}"
JsonObjects == {JsonFull, JsonEmpty}
\* The code fence delimiters, three backquotes with and without "json".
FenceJson == "[fence]json"
FenceEnd == "[fence]"
Fences == {FenceJson, FenceEnd}
Pieces ==
  {FenceJson, "<!DOCTYPE html>", "<style>", "body{}", "</style>", "</html>",
   JsonFull, JsonEmpty}
Contents == UNION {[1..k -> Pieces] : k \in 0..MaxContentLen}

\* The text of a piece as the patterns see it: a JSON object is its
\* punctuation around the text of its string values.
Atoms(piece) ==
  IF piece = JsonFull
  THEN <<"{\"html\":\"", "<!DOCTYPE html>", "</html>", "\",\"css\":\"", "body{}", "\"}">>
  ELSE <<piece>>

RECURSIVE RawText(_)
RawText(content) ==
  IF content = <<>> THEN <<>> ELSE Atoms(Head(content)) \o RawText(Tail(content))

\* The two replace calls that delete every fence delimiter, and trim().
IsNoFence(piece) == piece \notin Fences
cleanedContent(content) == SelectSeq(content, IsNoFence)

\* JSON.parse(cleanedContent): a value when the text is exactly one JSON
\* object, a SyntaxError otherwise (empty text, markup, several objects).
parsed(content) ==
  LET c == cleanedContent(content)
  IN IF Len(c) = 1 /\ c[1] \in JsonObjects
     THEN [ok |-> TRUE,
           html |-> IF c[1] = JsonFull THEN <<"<!DOCTYPE html>", "</html>">> ELSE <<>>,
           css |-> IF c[1] = JsonFull THEN <<"body{}">> ELSE <<>>]
     ELSE [ok |-> FALSE, html |-> <<>>, css |-> <<>>]

\* content.match(/<!DOCTYPE html>[\s\S]*<\/html>/i): from the first
\* "<!DOCTYPE html>" that has a "</html>" after it to the last "</html>".
htmlMatch(content) ==
  LET raw == RawText(content)
      hits == {i \in DOMAIN raw :
                 /\ raw[i] = "<!DOCTYPE html>"
                 /\ \E j \in DOMAIN raw : j > i /\ raw[j] = "</html>"}
  IN IF hits = {} THEN [found |-> FALSE, text |-> <<>>]
     ELSE LET i == CHOOSE x \in hits : \A y \in hits : x <= y
              ends == {j \in DOMAIN raw : j > i /\ raw[j] = "</html>"}
              j == CHOOSE x \in ends : \A y \in ends : x >= y
          IN [found |-> TRUE, text |-> SubSeq(raw, i, j)]

\* content.match(/<style[^>]*>([\s\S]*?)<\/style>/i): group 1 of the first
\* "<style>" that has a "</style>" after it, up to the nearest "</style>".
cssMatch(content) ==
  LET raw == RawText(content)
      hits == {i \in DOMAIN raw :
                 /\ raw[i] = "<style>"
                 /\ \E j \in DOMAIN raw : j > i /\ raw[j] = "</style>"}
  IN IF hits = {} THEN [found |-> FALSE, text |-> <<>>]
     ELSE LET i == CHOOSE x \in hits : \A y \in hits : x <= y
              ends == {j \in DOMAIN raw : j > i /\ raw[j] = "</style>"}
              j == CHOOSE x \in ends : \A y \in ends : x <= y
          IN [found |-> TRUE, text |-> SubSeq(raw, i + 1, j - 1)]

\* a || b on strings: b when a is undefined or empty.
OrElse(a, b) == IF a = <<>> THEN b ELSE a

\* generateWebsite from the provider's text on.
generateWebsite(content) ==
  IF parsed(content).ok
  THEN [ok |-> TRUE, html |-> OrElse(parsed(content).html, <<>>),
        css |-> OrElse(parsed(content).css, <<>>)]
  ELSE IF htmlMatch(content).found
  THEN [ok |-> TRUE, html |-> htmlMatch(content).text,
        css |-> IF cssMatch(content).found THEN cssMatch(content).text ELSE <<>>]
  ELSE [ok |-> FALSE, error |-> "Failed to generate website. Please try again."]

\* regenerateSection from the provider's text on.
regenerateSection(currentHtml, currentCss, content) ==
  IF parsed(content).ok
  THEN [ok |-> TRUE, html |-> OrElse(parsed(content).html, currentHtml),
        css |-> OrElse(parsed(content).css, currentCss)]
  ELSE IF htmlMatch(content).found
  THEN [ok |-> TRUE, html |-> htmlMatch(content).text, css |-> <<>>]
  ELSE [ok |-> FALSE, error |-> "Failed to update website section. Please try again."]

\* The site the caller of regenerateSection passes in.
CurrentHtml == <<"<!DOCTYPE html>", "<style>", "old{}", "</style>", "</html>">>
CurrentCss == <<"old{}">>

\* The provider has answered with any text of at most MaxContentLen pieces;
\* no parsing call has been made.
InitParse ==
  /\ users = [x \in {Admin} |-> NewUser("ADMIN")]
  /\ nextId = Admin + 1
  /\ aiGenerations = <<>>
  /\ req = [s \in Slots |-> IdleReq]
  /\ granted = [x \in Ids |-> 0]
  /\ out = NoOut
  /\ \E content \in Contents : call = [op |-> "content", content |-> content]

CallGenerateWebsite ==
  /\ call.op = "content"
  /\ call' = [op |-> "generateWebsite", content |-> call.content,
              ret |-> generateWebsite(call.content)]
  /\ UNCHANGED <<users, nextId, aiGenerations, req, granted, out>>

CallRegenerateSection ==
  /\ call.op = "content"
  /\ call' = [op |-> "regenerateSection", content |-> call.content,
              ret |-> regenerateSection(CurrentHtml, CurrentCss, call.content)]
  /\ UNCHANGED <<users, nextId, aiGenerations, req, granted, out>>

NextParse ==
  \/ CallGenerateWebsite
  \/ CallRegenerateSection

SpecParse == InitParse /\ [][NextParse]_vars

(* ------------------------------ claims --------------------------------- *)

\* A response was sent by the last step for a request whose gate read an
\* existing row that nobody else has written since.
Untouched == out.status # 0 /\ out.gateFound /\ ~out.touched

\* C1: a generate request whose gate finds the account past_due or cancelled
\* ends with 402 PaymentRequired whatever the plan and the counters are; it has
\* called nothing but getSubscriptionStatus (no quota answer, no consume, no
\* record) and the account's row is as the gate read it.
C1_BlockedEndsWith402 ==
  (Untouched /\ out.gateRow.subscriptionStatus \in {"past_due", "cancelled"})
    => /\ out.status = 402
       /\ out.body.requiresPayment = TRUE
       /\ out.calls = {"getSubscriptionStatus"}
       /\ out.userId \in DOMAIN users
       /\ users[out.userId] = out.gateRow

\* C1 happens: a blocked paid-plan account with credits left was refused.
C1_Witness ==
  /\ Untouched
  /\ out.status = 402
  /\ out.gateRow.subscriptionStatus = "cancelled"
  /\ out.gateRow.planType \in {"pro", "enterprise"}
  /\ out.gateRow.aiGenerationsUsed < out.gateRow.aiGenerationsLimit

\* C2: a generate request on a free-plan account with credits left and status
\* free or active, run with no other operation on the account in between and
\* with the provider answering, ends with 200 and leaves the counter one above
\* the value the gate read, the other fields of the row as they were.
C2_FreeWithCreditsCharged1 ==
  (/\ Untouched
   /\ out.gateRow.planType = "free"
   /\ out.gateRow.subscriptionStatus \in {"free", "active"}
   /\ out.gateRow.aiGenerationsUsed < out.gateRow.aiGenerationsLimit
   /\ "providerThrew" \notin out.calls)
    => /\ out.status = 200
       /\ out.userId \in DOMAIN users
       /\ users[out.userId] =
            [out.gateRow EXCEPT !.aiGenerationsUsed = out.gateRow.aiGenerationsUsed + 1]
       /\ out.body.usage.used = out.gateRow.aiGenerationsUsed + 1

\* C2 happens: such a request was answered 200 with the second credit spent.
C2_Witness ==
  /\ Untouched
  /\ out.status = 200
  /\ out.gateRow.planType = "free"
  /\ out.gateRow.aiGenerationsUsed = 1
  /\ users[out.userId].aiGenerationsUsed = 2

\* C3: a generate request whose provider call throws ends with 503; it has not
\* called incrementAiUsage, written no counter and appended no record, and when
\* nobody else wrote the account its row is as the gate read it.
C3_ProviderFailureNotCharged ==
  (out.status # 0 /\ "providerThrew" \in out.calls)
    => /\ out.status = 503
       /\ out.calls \cap {"incrementAiUsage", "update", "true", "false", "logAiGeneration"} = {}
       /\ Untouched => /\ out.userId \in DOMAIN users
                       /\ users[out.userId] = out.gateRow

\* C3 happens: the provider threw for the account {used 0, limit 3, free,
\* active} and the counter is still 0.
C3_Witness ==
  /\ Untouched
  /\ out.status = 503
  /\ out.gateRow.planType = "free"
  /\ out.gateRow.subscriptionStatus = "active"
  /\ out.gateRow.aiGenerationsLimit = 3
  /\ users[out.userId].aiGenerationsUsed = 0

\* C4: the consume step is an atomic increment-or-reject: for every account the
\* number of incrementAiUsage calls that took a credit and returned true since
\* the counter was last reset never exceeds aiGenerationsLimit.
C4_GrantedWithinLimit ==
  \A id \in DOMAIN users : granted[id] <= users[id].aiGenerationsLimit

\* C5: across every step, an account's aiGenerationsUsed decreases only by
\* being set to 0 by an updateSubscription whose new plan is free.
C5_UsedOnlyResetByFree ==
  [][\A id \in (DOMAIN users) \cap (DOMAIN users') :
       users'[id].aiGenerationsUsed < users[id].aiGenerationsUsed
         => /\ users'[id].aiGenerationsUsed = 0
            /\ \E status \in Statuses : UpdateSubscription(id, "free", status)]_vars

\* C6: incrementAiUsage on a pro or enterprise account whose status is active
\* returns true and leaves the whole users table as it was, after any sequence
\* of calls and for any counter value.
C6_PaidActiveNotCounted ==
  (/\ call.op = "incrementAiUsage"
   /\ call.found
   /\ call.read.planType \in {"pro", "enterprise"}
   /\ call.read.subscriptionStatus = "active")
    => call.ret = TRUE /\ users = call.before

\* C6 happens: the call was made on a paid active account whose counter is at
\* or above its limit.
C6_Witness ==
  /\ call.op = "incrementAiUsage"
  /\ call.userId \in DOMAIN call.before
  /\ call.before[call.userId].planType = "enterprise"
  /\ call.before[call.userId].subscriptionStatus = "active"
  /\ call.before[call.userId].aiGenerationsUsed >= call.before[call.userId].aiGenerationsLimit

\* C7: updateSubscription(account, free, s) sets aiGenerationsUsed to 0,
\* aiGenerationsLimit to 3, planType to free and subscriptionStatus to s, for
\* every status s and every prior row.
C7_FreeResets ==
  (/\ call.op = "updateSubscription"
   /\ call.planType = "free"
   /\ call.userId \in DOMAIN call.before)
    => /\ call.userId \in DOMAIN users
       /\ users[call.userId].aiGenerationsUsed = 0
       /\ users[call.userId].aiGenerationsLimit = 3
       /\ users[call.userId].planType = "free"
       /\ users[call.userId].subscriptionStatus = call.status

\* C7 happens: a paid account with a used counter was moved to free with a
\* blocked status.
C7_Witness ==
  /\ call.op = "updateSubscription"
  /\ call.planType = "free"
  /\ call.status = "past_due"
  /\ call.userId \in DOMAIN call.before
  /\ call.before[call.userId].planType = "pro"
  /\ call.before[call.userId].aiGenerationsUsed > 3

\* C8: updateSubscription(account, p, s) with p pro or enterprise sets
\* aiGenerationsLimit to 999999, planType to p and subscriptionStatus to s and
\* leaves aiGenerationsUsed, the role and every other account as they were.
C8_PaidKeepsUsed ==
  (/\ call.op = "updateSubscription"
   /\ call.planType \in {"pro", "enterprise"}
   /\ call.userId \in DOMAIN call.before)
    => users = [call.before EXCEPT ![call.userId] =
                 [role |-> call.before[call.userId].role,
                  aiGenerationsUsed |-> call.before[call.userId].aiGenerationsUsed,
                  aiGenerationsLimit |-> 999999,
                  planType |-> call.planType,
                  subscriptionStatus |-> call.status]]

\* C8 happens: a free account with credits spent was moved to pro, active.
C8_Witness ==
  /\ call.op = "updateSubscription"
  /\ call.planType = "pro"
  /\ call.status = "active"
  /\ call.userId \in DOMAIN call.before
  /\ call.before[call.userId].planType = "free"
  /\ call.before[call.userId].aiGenerationsUsed = 2
  /\ users[call.userId].aiGenerationsUsed = 2

\* C9: a generate request whose gate finds a free-plan account, not blocked,
\* with aiGenerationsUsed >= aiGenerationsLimit ends with 403 having called
\* nothing but getSubscriptionStatus (no provider, no incrementAiUsage, no
\* record), and the account's row is as the gate read it.
C9_ExhaustedEndsWith403 ==
  (/\ Untouched
   /\ out.gateRow.planType = "free"
   /\ out.gateRow.subscriptionStatus \in {"free", "active"}
   /\ out.gateRow.aiGenerationsUsed >= out.gateRow.aiGenerationsLimit)
    => /\ out.status = 403
       /\ out.calls = {"getSubscriptionStatus"}
       /\ out.userId \in DOMAIN users
       /\ users[out.userId] = out.gateRow

\* C9 happens: the account {used 3, limit 3, free, free} was refused.
C9_Witness ==
  /\ Untouched
  /\ out.status = 403
  /\ out.gateRow.planType = "free"
  /\ out.gateRow.subscriptionStatus = "free"
  /\ out.gateRow.aiGenerationsUsed = 3
  /\ out.gateRow.aiGenerationsLimit = 3

\* C10: every 403 of the generate route carries message, requiresUpgrade = true
\* and the subscription snapshot.
C10_Every403CarriesSnapshot ==
  out.status = 403
    => /\ {"message", "requiresUpgrade", "subscription"} \subseteq DOMAIN out.body
       /\ out.body.requiresUpgrade = TRUE

\* C11: a generate request that ends with a status other than 200 has
\* committed nothing: it wrote no usage counter (so the counter of an account
\* nobody else wrote is the one the gate read) and appended no Generation
\* Record, also when a storage call after incrementAiUsage fails.
C11_FailureCommitsNothing ==
  (out.status \notin {0, 200} /\ out.route = RouteGenerate) =>
     /\ "update" \notin out.calls
     /\ "logAiGeneration" \notin out.calls
     /\ Untouched =>
          /\ out.userId \in DOMAIN users
          /\ users[out.userId].aiGenerationsUsed = out.gateRow.aiGenerationsUsed

\* C12: the delete route called with the caller's own id answers 400
\* "Cannot delete yourself" without calling deleteUser, and the caller's
\* account is still there; for any other id the account is removed and the
\* answer is 204 when it existed, and nothing changes and the answer is 404
\* when it did not.
C12_DeleteSelfRefused ==
  (out.status # 0 /\ out.route = RouteDeleteUser) =>
     IF out.id = out.userId
     THEN /\ out.status = 400
          /\ out.body.message = "Cannot delete yourself"
          /\ "deleteUser" \notin out.calls
          /\ users = out.before
          /\ out.userId \in DOMAIN users
     ELSE IF out.id \in DOMAIN out.before
     THEN /\ out.status = 204
          /\ DOMAIN users = DOMAIN out.before \ {out.id}
          /\ \A x \in DOMAIN users : users[x] = out.before[x]
     ELSE /\ out.status = 404
          /\ users = out.before

\* The administrator asked for the deletion of the own account.
C12_Witness ==
  /\ out.status = 400
  /\ out.route = RouteDeleteUser
  /\ out.id = out.userId
  /\ out.userId \in DOMAIN users

\* C13: getSubscriptionStatus writes nothing and computes isBlocked as
\* "status is past_due or cancelled" and canUseAi as "not blocked, and credits
\* left or a pro or enterprise plan"; for a missing account it answers plan
\* free, status free, not blocked, may use AI, and getAiUsage answers used 0,
\* limit 3, remaining 3.
C13_SnapshotIsPure ==
  /\ call.op = "getSubscriptionStatus" =>
       /\ users = call.before
       /\ IF call.userId \in DOMAIN call.before
          THEN LET row == call.before[call.userId]
                   blocked == row.subscriptionStatus \in {"past_due", "cancelled"}
               IN /\ call.ret.planType = row.planType
                  /\ call.ret.status = row.subscriptionStatus
                  /\ call.ret.isBlocked = blocked
                  /\ call.ret.canUseAi =
                       (~blocked /\ (\/ row.aiGenerationsUsed < row.aiGenerationsLimit
                                     \/ row.planType \in {"pro", "enterprise"}))
          ELSE call.ret = [planType |-> "free", status |-> "free",
                           isBlocked |-> FALSE, canUseAi |-> TRUE]
  /\ (call.op = "getAiUsage" /\ call.userId \notin DOMAIN call.before) =>
       /\ users = call.before
       /\ call.ret = [used |-> 0, limit |-> 3, remaining |-> 3]

\* The snapshot of a paid account that has no credits left and is not blocked.
C13_Witness ==
  /\ call.op = "getSubscriptionStatus"
  /\ call.userId \in DOMAIN call.before
  /\ call.before[call.userId].planType = "enterprise"
  /\ call.before[call.userId].subscriptionStatus = "active"
  /\ call.before[call.userId].aiGenerationsUsed >= call.before[call.userId].aiGenerationsLimit
  /\ call.ret.canUseAi
  /\ ~call.ret.isBlocked

\* C15: for a pro or enterprise account whose status is not active,
\* incrementAiUsage counts credits: with used < limit it adds one to used and
\* returns true, with used >= limit it returns false and writes nothing;
\* getSubscriptionStatus of such an account with status free says canUseAi.
C15_PaidNotActiveIsCreditLimited ==
  /\ ( /\ call.op = "incrementAiUsage"
       /\ call.found
       /\ ~call.touched
       /\ call.read.planType \in {"pro", "enterprise"}
       /\ call.read.subscriptionStatus # "active" ) =>
       LET row == call.read
       IN IF row.aiGenerationsUsed < row.aiGenerationsLimit
          THEN /\ call.ret = TRUE
               /\ DOMAIN users = DOMAIN call.before
               /\ users[call.userId] =
                    [row EXCEPT !.aiGenerationsUsed = row.aiGenerationsUsed + 1]
               /\ \A x \in DOMAIN users \ {call.userId} : users[x] = call.before[x]
          ELSE /\ call.ret = FALSE
               /\ users = call.before
  /\ ( /\ call.op = "getSubscriptionStatus"
       /\ call.userId \in DOMAIN call.before
       /\ call.before[call.userId].planType \in {"pro", "enterprise"}
       /\ call.before[call.userId].subscriptionStatus = "free" ) =>
       call.ret.canUseAi = TRUE

\* incrementAiUsage refused a pro account with status free and no credits left.
C15_Witness ==
  /\ call.op = "incrementAiUsage"
  /\ call.userId \in DOMAIN call.before
  /\ call.before[call.userId].planType = "pro"
  /\ call.before[call.userId].subscriptionStatus = "free"
  /\ call.before[call.userId].aiGenerationsUsed >= call.before[call.userId].aiGenerationsLimit
  /\ call.ret = FALSE
  /\ users = call.before

\* C14 as stated: a request that passed the gate and whose account nobody
\* else changed or deleted between the gate and incrementAiUsage gets true
\* from incrementAiUsage and ends with 200.
C14_FalseOnlyByRace ==
  ( /\ out.status # 0
    /\ out.route = RouteGenerate
    /\ "incrementAiUsage" \in out.calls
    /\ ~out.touched ) =>
     /\ "true" \in out.calls
     /\ out.status = 200

\* C14, amended: the same for a request whose gate found the account, with
\* credits left or on a pro or enterprise plan with status active.
C14_FalseOnlyByRaceOrNoRow ==
  ( /\ out.status # 0
    /\ out.route = RouteGenerate
    /\ "incrementAiUsage" \in out.calls
    /\ ~out.touched
    /\ out.gateFound
    /\ \/ out.gateRow.aiGenerationsUsed < out.gateRow.aiGenerationsLimit
       \/ /\ out.gateRow.planType \in {"pro", "enterprise"}
          /\ out.gateRow.subscriptionStatus = "active" ) =>
     /\ "true" \in out.calls
     /\ out.status = 200

\* A request on an active pro account that nobody interfered with ended 200.
C14_Witness ==
  /\ out.status = 200
  /\ out.route = RouteGenerate
  /\ out.gateFound
  /\ ~out.touched
  /\ out.gateRow.planType = "pro"
  /\ out.gateRow.subscriptionStatus = "active"
  /\ "true" \in out.calls

\* C16: a generate request whose account is missing when the gate reads it
\* (a token that outlived its account) passes the gate on the default
\* snapshot, but never ends with 200: incrementAiUsage returns false and
\* writes nothing, the request ends 403 (or 503 before that) and appends no
\* Generation Record.
C16_MissingAccountFailsClosed ==
  ( /\ out.status # 0
    /\ out.route = RouteGenerate
    /\ "getSubscriptionStatus" \in out.calls
    /\ ~out.gateFound
    /\ ~out.touched ) =>
     /\ out.status \in {403, 503}
     /\ out.userId \notin DOMAIN users
     /\ "update" \notin out.calls
     /\ "logAiGeneration" \notin out.calls
     /\ "incrementAiUsage" \in out.calls =>
          /\ "false" \in out.calls
          /\ "true" \notin out.calls
          /\ out.status = 403
          /\ out.body = [message |-> MsgLimitConsume]

\* A request of a deleted account passed the gate and was refused by
\* incrementAiUsage.
C16_Witness ==
  /\ out.status = 403
  /\ out.route = RouteGenerate
  /\ ~out.gateFound
  /\ ~out.touched
  /\ out.userId \notin DOMAIN users
  /\ {"getSubscriptionStatus", "provider", "incrementAiUsage", "false"} \subseteq out.calls

\* C17 as stated: the tokensUsed of a 200 response and of every Generation
\* Record is the prompt length times 1.5 rounded up, (3n + 1) div 2.
C17_TokensAreCeil ==
  /\ (out.status = 200 /\ out.route = RouteGenerate) =>
       out.body.tokensUsed = (3 * out.prompt + 1) \div 2
  /\ \A i \in DOMAIN aiGenerations :
       aiGenerations[i].tokensUsed = (3 * aiGenerations[i].prompt + 1) \div 2

\* C17, amended: tokensUsed is the prompt length times 1.5 rounded down: the
\* integer t with 2t <= 3n < 2(t + 1), in the response and in the record.
C17_TokensAreFloor ==
  /\ (out.status = 200 /\ out.route = RouteGenerate) =>
       /\ 2 * out.body.tokensUsed <= 3 * out.prompt
       /\ 3 * out.prompt < 2 * (out.body.tokensUsed + 1)
  /\ \A i \in DOMAIN aiGenerations :
       /\ 2 * aiGenerations[i].tokensUsed <= 3 * aiGenerations[i].prompt
       /\ 3 * aiGenerations[i].prompt < 2 * (aiGenerations[i].tokensUsed + 1)

\* A 200 response for a prompt of odd length 3 (4 tokens) after a record for a
\* prompt of even length 2 (3 tokens).
C17_Witness ==
  /\ out.status = 200
  /\ out.route = RouteGenerate
  /\ out.prompt = 3
  /\ out.body.tokensUsed = 4
  /\ \E i \in DOMAIN aiGenerations :
       aiGenerations[i].prompt = 2 /\ aiGenerations[i].tokensUsed = 3

\* C18: generateWebsite and regenerateSection return a result only when
\* HTML was recovered: when the strict parse gives no non-empty html and no
\* document is found the call fails, and when the strict parse fails and a
\* document is found the result is that document with the contents of the
\* first style block, or the empty text, as css.
C18_ResultOnlyWithHtml ==
  call.op \in {"generateWebsite", "regenerateSection"} =>
     LET strict == parsed(call.content)
         doc == htmlMatch(call.content)
         style == cssMatch(call.content)
     IN /\ (strict.html = <<>> /\ ~doc.found) => ~call.ret.ok
        /\ (~strict.ok /\ doc.found) =>
             /\ call.ret.ok
             /\ call.ret.html = doc.text
             /\ call.ret.css = IF style.found THEN style.text ELSE <<>>

\* C19: the Generation Record log only grows, one record at a time at its
\* end, and each record is appended by a request whose incrementAiUsage
\* returned true, with that request's user and prompt; a request answered 200
\* has appended exactly one record (its logAiGeneration step, the only way to
\* the final step) holding the prompt, result and token estimate of the
\* response; a request answered 402 or 403 has appended none.
C19_LogAppendOnlyAndCharged ==
  [][ /\ \/ aiGenerations' = aiGenerations
         \/ /\ Len(aiGenerations') = Len(aiGenerations) + 1
            /\ SubSeq(aiGenerations', 1, Len(aiGenerations)) = aiGenerations
            /\ \E s \in Slots :
                 /\ req[s].pc = "log" /\ req'[s].pc = "usage2"
                 /\ "true" \in req[s].calls
                 /\ "false" \notin req[s].calls
                 /\ "logAiGeneration" \notin req[s].calls
                 /\ aiGenerations'[Len(aiGenerations')].userId = req[s].userId
                 /\ aiGenerations'[Len(aiGenerations')].prompt = req[s].prompt
      /\ (out'.status = 200 /\ out'.route = RouteGenerate) =>
           /\ {"true", "logAiGeneration"} \subseteq out'.calls
           /\ "false" \notin out'.calls
           /\ aiGenerations' = aiGenerations
           /\ \E s \in Slots : req[s].pc = "usage2" /\ req'[s].pc = "idle"
           /\ \E i \in DOMAIN aiGenerations :
                /\ aiGenerations[i].userId = out'.userId
                /\ aiGenerations[i].prompt = out'.prompt
                /\ aiGenerations[i].result = out'.body.result
                /\ aiGenerations[i].tokensUsed = out'.body.tokensUsed
      /\ (out'.status \in {400, 402, 403, 503} /\ out'.route = RouteGenerate) =>
           /\ "logAiGeneration" \notin out'.calls
           /\ aiGenerations' = aiGenerations
    ]_vars

\* Two requests were answered 200 and the log holds their two records.
C19_Witness ==
  /\ out.status = 200
  /\ out.route = RouteGenerate
  /\ Len(aiGenerations) = 2
  /\ aiGenerations[2].userId = out.userId
  /\ req = [s \in Slots |-> IdleReq]

====
